---- MODULE Spec2Model ----
(***************************************************************************)
(* perfstatsd I/O usage accounting (src/perfstatsd/io_usage.cpp).          *)
(*                                                                         *)
(* One sampling tick is io_usage::refresh: it reads /proc/uid_io/stats,    *)
(* parses it into a map uid -> user_io, hands it to IoStats::calcAll       *)
(* (deltas, Total, the two top arrays, uid/name resolution) and appends    *)
(* the text IoStats::dump renders.  io_usage::setOptions changes the dump  *)
(* thresholds and the debug flag.                                          *)
(*                                                                         *)
(* io_usage.h is not part of the sources at hand: user_io's operators,     *)
(* reset(), IO_TOP_MAX, the threshold setters and the initial values of    *)
(* the members are modelled from the specification's data model.           *)
(***************************************************************************)
EXTENDS Integers, Sequences, FiniteSets, TLC

VARIABLES
    mPrevious,             \* IoStats: uid -> user_io of the last ingested snapshot
    mLast,                 \* IoStats: previous timestamp
    mNow,                  \* IoStats: current timestamp
    mTotal,                \* IoStats: user_io, sum of the deltas of the tick
    mReadTop,              \* IoStats: user_io[IO_TOP_MAX], by read
    mWriteTop,             \* IoStats: user_io[IO_TOP_MAX], by write
    mUidNameMap,           \* IoStats: uid -> name used by dump()
    mUnknownUidList,       \* IoStats: vector of uids without a name
    mUidNameMapping,       \* ProcPidIoStats: uid -> name seen in /proc/<pid>/status
    mMinSizeOfTotalRead,   \* IoStats: read threshold of dump()
    mMinSizeOfTotalWrite,  \* IoStats: write threshold of dump()
    sDisabled,             \* static flag
    sOptDebug,             \* static flag
    appended,              \* the text this step handed to append(), as a sequence of lines
    alive,                 \* FALSE once the process was aborted
    offered,               \* history: the records offered to the top arrays since their reset
    tick                   \* history: the last operation; of a tick: whether the read
                           \* succeeded, the parsed snapshot, whether it repeats the one
                           \* before, the deltas, the pending uids and what the lookups yield;
                           \* of setOptions: whether it was asked to disable

vars == <<mPrevious, mLast, mNow, mTotal, mReadTop, mWriteTop, mUidNameMap,
          mUnknownUidList, mUidNameMapping, mMinSizeOfTotalRead,
          mMinSizeOfTotalWrite, sDisabled, sOptDebug, appended, alive, offered, tick>>

intervalState == <<mPrevious, mLast, mNow, mTotal, mReadTop, mWriteTop>>

(***************************************************************************)
(* Bounds of the model.                                                    *)
(***************************************************************************)
\* uint64_t arithmetic is modulo 2^64; the model scales the modulus down
\* to 2^29, so that sums of two values stay within what the model checker's integers can hold.
UINT64_SPAN == 536870912
\* Size of the top arrays (IO_TOP_MAX of io_usage.h), scaled down.
IO_TOP_MAX == 2
\* The system clock returns readings in 1..MaxTime (in milliseconds), in any order.
MaxTime == 2
\* Offers made to the top arrays in the specification of the rankers alone.
MaxOffers == 4
\* print_num is run on every value up to MaxPrinted.
MaxPrinted == 300
\* The longest uint64_t, 18446744073709551615, has MaxDigits digits.
MaxDigits == 20

\* AID_APP_START of android_filesystem_config.h, used by isAppUid.
AID_APP_START == 10000

(***************************************************************************)
(* user_io and its arithmetic (io_usage.h).                                *)
(***************************************************************************)
U64(x) == x % UINT64_SPAN

user_io(uid, fr, br, fw, bw, fs, bs) ==
    [uid |-> uid, fg_read |-> fr, bg_read |-> br, fg_write |-> fw,
     bg_write |-> bw, fg_fsync |-> fs, bg_fsync |-> bs]

\* user_io::reset(): the zero value
ZeroIo == user_io(0, 0, 0, 0, 0, 0, 0)

\* user_io::operator+ : field-wise, modulo 2^64, the left operand's uid
IoAdd(a, b) ==
    user_io(a.uid, U64(a.fg_read + b.fg_read), U64(a.bg_read + b.bg_read),
            U64(a.fg_write + b.fg_write), U64(a.bg_write + b.bg_write),
            U64(a.fg_fsync + b.fg_fsync), U64(a.bg_fsync + b.bg_fsync))

\* user_io::operator- : field-wise, modulo 2^64, the left operand's uid
IoSub(a, b) ==
    user_io(a.uid, U64(a.fg_read - b.fg_read), U64(a.bg_read - b.bg_read),
            U64(a.fg_write - b.fg_write), U64(a.bg_write - b.bg_write),
            U64(a.fg_fsync - b.fg_fsync), U64(a.bg_fsync - b.bg_fsync))

io_sum_read(d) == U64(d.fg_read + d.bg_read)

io_sum_write(d) == U64(d.fg_write + d.bg_write)

isAppUid(uid) == uid >= AID_APP_START

(***************************************************************************)
(* The top arrays.  An array is a sequence of IO_TOP_MAX user_io.          *)
(***************************************************************************)
ZeroTop == [i \in 1..IO_TOP_MAX |-> ZeroIo]

\* The loop of updateTopRead with "usage = tmp" left out: the displaced record is lost.
RECURSIVE ReadOverwrite(_, _, _)
ReadOverwrite(top, usage, i) ==
    IF i > IO_TOP_MAX THEN top
    ELSE IF io_sum_read(usage) > io_sum_read(top[i])
         THEN ReadOverwrite([top EXCEPT ![i] = usage], usage, i + 1)
         ELSE ReadOverwrite(top, usage, i + 1)

\* The loop of updateTopRead from slot i on: the candidate is swapped with
\* every slot whose read sum it strictly exceeds, and the displaced record
\* is carried on as the candidate.
RECURSIVE ReadCascade(_, _, _)
ReadCascade(top, usage, i) ==
    IF i > IO_TOP_MAX THEN top
    ELSE IF io_sum_read(usage) > io_sum_read(top[i])
         THEN ReadCascade([top EXCEPT ![i] = usage], top[i], i + 1)
         ELSE ReadCascade(top, usage, i + 1)

updateTopRead_NoCarry(top, usage) == ReadOverwrite(top, usage, 1)

updateTopRead(top, usage) == ReadCascade(top, usage, 1)

\* The loop of updateTopWrite from slot i on.
RECURSIVE WriteCascade(_, _, _)
WriteCascade(top, usage, i) ==
    IF i > IO_TOP_MAX THEN top
    ELSE IF io_sum_write(usage) > io_sum_write(top[i])
         THEN WriteCascade([top EXCEPT ![i] = usage], top[i], i + 1)
         ELSE WriteCascade(top, usage, i + 1)

\* updateTopWrite comparing with the last slot only
updateTopWrite_LastSlot(top, usage) ==
    IF io_sum_write(usage) > io_sum_write(top[IO_TOP_MAX])
    THEN [top EXCEPT ![IO_TOP_MAX] = usage]
    ELSE top

updateTopWrite(top, usage) == WriteCascade(top, usage, 1)

(***************************************************************************)
(* Inputs of the model.                                                    *)
(***************************************************************************)
\* Owner identities: one system identity and two application identities.
UIDs == {1000, 10001, 10002}

\* Cumulative counters a line of /proc/uid_io/stats may carry, as
\* <<fg_read, bg_read, fg_write, bg_write, fg_fsync, bg_fsync>>.
SampleA == <<1, 0, 0, 2, 1, 0>>
SampleB == <<1, 2, 1, 2, 1, 1>>
SampleC == <<2, 2, 3, 2, 2, 1>>

IoOf(uid, s) == user_io(uid, s[1], s[2], s[3], s[4], s[5], s[6])

\* Records offered to the top arrays in the specification of the rankers.
RankOffers == {IoOf(u, s) : u \in UIDs, s \in {SampleA, SampleB, <<0, 2, 1, 0, 0, 1>>}}

(***************************************************************************)
(* The state after construction.                                           *)
(***************************************************************************)
EmptyMap == [u \in {} |-> 0]

Init ==
    /\ mPrevious = EmptyMap
    /\ mLast = 0
    /\ mNow = 0
    /\ mTotal = ZeroIo
    /\ mReadTop = ZeroTop
    /\ mWriteTop = ZeroTop
    /\ mUidNameMap = EmptyMap
    /\ mUnknownUidList = <<>>
    /\ mUidNameMapping = EmptyMap
    /\ mMinSizeOfTotalRead = 0
    /\ mMinSizeOfTotalWrite = 0
    /\ sDisabled = FALSE
    /\ sOptDebug = FALSE
    /\ appended = <<>>
    /\ alive = TRUE
    /\ offered = <<>>
    /\ tick = [kind |-> "init"]

(***************************************************************************)
(* One pass of the accumulation loop of calcAll (lines 286-293): the       *)
(* record is added to Total and offered to both top arrays.                *)
(***************************************************************************)
\* the same pass, assigning the record to Total where line 289 adds it
Accumulate_Assigns(acc, d) ==
    [total |-> IoAdd(ZeroIo, d),
     readTop |-> updateTopRead(acc.readTop, d),
     writeTop |-> updateTopWrite(acc.writeTop, d)]

Accumulate(acc, d) ==
    [total |-> IoAdd(acc.total, d),
     readTop |-> updateTopRead(acc.readTop, d),
     writeTop |-> updateTopWrite(acc.writeTop, d)]

Offer(d) ==
    /\ alive
    /\ Len(offered) < MaxOffers
    /\ LET acc == Accumulate([total |-> mTotal, readTop |-> mReadTop,
                              writeTop |-> mWriteTop], d)
       IN /\ mTotal' = acc.total
          /\ mReadTop' = acc.readTop
          /\ mWriteTop' = acc.writeTop
    /\ offered' = Append(offered, d)
    /\ appended' = <<>>
    /\ tick' = [kind |-> "offer"]
    /\ UNCHANGED <<mPrevious, mLast, mNow, mUidNameMap, mUnknownUidList,
                   mUidNameMapping, mMinSizeOfTotalRead, mMinSizeOfTotalWrite,
                   sDisabled, sOptDebug, alive>>

(***************************************************************************)
(* The kernel counter source and its parsing (refresh, read_line_to_data). *)
(* A line is a sequence of fields; a field is the number it spells, a      *)
(* negative one when it spells no unsigned number.                         *)
(***************************************************************************)
UidSeq == <<1000, 10001, 10002>>

\* The line of /proc/uid_io/stats for uid with the cumulative counters s:
\* fields 3/4 are fg read/write, 7/8 bg read/write, 9/10 fg/bg fsync.
KernelLine(uid, s) == <<uid, 0, 0, s[1], s[3], 0, 0, s[2], s[4], s[5], s[6]>>

\* The file holding one line per identity of snap (uid -> sample).
FileOf(snap) ==
    LET present == SelectSeq(UidSeq, LAMBDA u : u \in DOMAIN snap)
    IN [i \in 1..Len(present) |-> KernelLine(present[i], snap[present[i]])]

\* All maps from a subset of uids to samples.
Snapshots(uids, samples) == UNION {[D -> samples] : D \in SUBSET uids}

\* android::base::ParseUint on a field: it must spell an unsigned number in range
ParsesAsUint(f) == f >= 0 /\ f < UINT64_SPAN

\* read_line_to_data: [ok, data]
read_line_to_data(line) ==
    IF \/ Len(line) < 11
       \/ \E k \in {1, 4, 5, 8, 9, 10, 11} : ~ParsesAsUint(line[k])
    THEN [ok |-> FALSE, data |-> ZeroIo]
    ELSE [ok |-> TRUE,
          data |-> user_io(line[1], line[4], line[8], line[5], line[9],
                           line[10], line[11])]

\* The loop of refresh over the lines (466-476): empty and invalid lines are
\* skipped, a later line of the same uid replaces an earlier one.
RECURSIVE ParseLines(_, _, _)
ParseLines(lines, i, datas) ==
    IF i > Len(lines) THEN datas
    ELSE LET r == read_line_to_data(lines[i])
         IN IF lines[i] = <<>> \/ ~r.ok THEN ParseLines(lines, i + 1, datas)
            ELSE ParseLines(lines, i + 1,
                    [u \in DOMAIN datas \cup {r.data.uid} |->
                        IF u = r.data.uid THEN r.data ELSE datas[u]])

(***************************************************************************)
(* ProcPidIoStats.                                                         *)
(***************************************************************************)
\* update(): scan is the uid -> name read from the status records of the
\* pids that are new in this call; each overwrites mUidNameMapping[uid].
ProcUpdate(mapping, scan) ==
    [u \in DOMAIN mapping \cup DOMAIN scan |->
        IF u \in DOMAIN scan THEN scan[u] ELSE mapping[u]]

\* getNameForUid: found iff uid is a key
getNameForUid(mapping, uid) ==
    IF uid \in DOMAIN mapping THEN [found |-> TRUE, name |-> mapping[uid]]
    ELSE [found |-> FALSE, name |-> ""]

(***************************************************************************)
(* IoStats::updateUnknownUidList.                                          *)
(***************************************************************************)
\* mUnknownUidList.erase(std::remove(begin, end, uid), end) on a vector whose
\* storage is buf and whose size is size: the kept elements move to the
\* front, the storage behind the new end keeps what it held.
EraseUid(buf, size, uid) ==
    LET kept == SelectSeq(SubSeq(buf, 1, size), LAMBDA x : x # uid)
    IN [buf |-> [i \in 1..Len(buf) |-> IF i <= Len(kept) THEN kept[i] ELSE buf[i]],
        size |-> Len(kept)]

MapPut(map, uid, name) ==
    [u \in DOMAIN map \cup {uid} |-> IF u = uid THEN name ELSE map[u]]

\* The loop of lines 199-225 from index i (1-based) on; len is the size the
\* list had when the loop started.  mUnknownUidList[i] past the current size
\* is undefined: the build either reads the stale slot or aborts.
\* The result is the set of possible outcomes.
RECURSIVE ResolveLoop(_, _, _, _, _, _, _)
ResolveLoop(i, len, buf, size, map, procNames, pw) ==
    IF i > len THEN {[trap |-> FALSE, map |-> map, left |-> SubSeq(buf, 1, size)]}
    ELSE LET uid == buf[i]
             app == getNameForUid(procNames, uid)
             e == EraseUid(buf, size, uid)
             go == IF isAppUid(uid)
                   THEN IF ~app.found
                        THEN ResolveLoop(i + 1, len, buf, size, map, procNames, pw)
                        ELSE ResolveLoop(i + 1, len, e.buf, e.size,
                                         MapPut(map, uid, app.name), procNames, pw)
                   ELSE IF uid \notin DOMAIN pw
                        THEN ResolveLoop(i + 1, len, buf, size, map, procNames, pw)
                        ELSE ResolveLoop(i + 1, len, e.buf, e.size,
                                         MapPut(map, uid, pw[uid]), procNames, pw)
         IN IF i > size
            THEN go \cup {[trap |-> TRUE, map |-> map, left |-> SubSeq(buf, 1, size)]}
            ELSE go

\* The names the lookups of updateUnknownUidList yield for the uids of list:
\* the process names for application uids, getpwuid for the others.
Lookup(list, procNames, pw) ==
    [u \in {list[k] : k \in 1..Len(list)}
           \cap ({v \in DOMAIN procNames : isAppUid(v)} \cup {v \in DOMAIN pw : ~isAppUid(v)})
       |-> IF isAppUid(u) THEN procNames[u] ELSE pw[u]]

\* the list not cleared at the end
Cleared_Kept(left) == left

\* mUnknownUidList.clear() (235) on what the loop left of the list
Cleared(left) == <<>>

\* updateUnknownUidList on list, with name map map and process names mapping;
\* scans: what ProcPidIoStats::update(false) may find, pws: what getpwuid may
\* know.  The result is the set of possible outcomes.
updateUnknownUidList(list, map, mapping, scans, pws) ==
    IF Len(list) = 0
    THEN {[trap |-> FALSE, map |-> map, procNames |-> mapping, lookup |-> EmptyMap,
           list |-> list]}
    ELSE UNION {
            LET procNames == ProcUpdate(mapping, scan)
            IN {[trap |-> o.trap, map |-> o.map, procNames |-> procNames,
                 lookup |-> Lookup(list, procNames, pw),
                 list |-> IF o.trap THEN o.left ELSE Cleared(o.left)] :
                   o \in ResolveLoop(1, Len(list), list, Len(list), map, procNames, pw)}
            : scan \in scans, pw \in pws}

(***************************************************************************)
(* IoStats::calcIncrement and IoStats::calcAll.                            *)
(***************************************************************************)
\* The keys of map m in the iteration order ord (a permutation of the uids).
KeysInOrder(m, ord) == SelectSeq(ord, LAMBDA u : u \in DOMAIN m)

\* the same with a counter that fell giving a delta of zero
Increment_Clamped(prev, data) ==
    [u \in DOMAIN data |->
        IF u \notin DOMAIN prev THEN data[u]
        ELSE [f \in DOMAIN data[u] |->
                 IF f = "uid" THEN data[u][f]
                 ELSE IF data[u][f] < prev[u][f] THEN 0 ELSE data[u][f] - prev[u][f]]]

\* the same, every record taken as new
Increment_AllNew(prev, data) == [u \in DOMAIN data |-> data[u]]

\* diffs of calcIncrement (244-248)
Increment(prev, data) ==
    [u \in DOMAIN data |->
        IF u \notin DOMAIN prev THEN data[u] ELSE IoSub(data[u], prev[u])]

\* the same without the test for a cached name
NewUnknown_IgnoresCache(diffs, map, ord) ==
    SelectSeq(KeysInOrder(diffs, ord),
              LAMBDA u : io_sum_read(diffs[u]) # 0 \/ io_sum_write(diffs[u]) # 0)

\* the uids calcIncrement pushes to mUnknownUidList (250-253), in the
\* iteration order of data
NewUnknown(diffs, map, ord) ==
    SelectSeq(KeysInOrder(diffs, ord),
              LAMBDA u : /\ (io_sum_read(diffs[u]) # 0 \/ io_sum_write(diffs[u]) # 0)
                         /\ u \notin DOMAIN map)

\* The map a std::move left behind (263): empty.
MovedFrom(data) == EmptyMap

\* the loop of lines 286-293 over amounts in the iteration order keys
RECURSIVE AccumulateAll(_, _, _, _)
AccumulateAll(acc, amounts, keys, i) ==
    IF i > Len(keys) THEN acc
    ELSE AccumulateAll(Accumulate(acc, amounts[keys[i]]), amounts, keys, i + 1)

\* Total and the top arrays as they are.
KeptTotals == [total |-> mTotal, readTop |-> mReadTop, writeTop |-> mWriteTop]

\* the reset of lines 281-285 left out
ResetTotals_Skipped == [total |-> mTotal, readTop |-> mReadTop, writeTop |-> mWriteTop]

\* Total and the top arrays after their reset (281-285).
ResetTotals == [total |-> ZeroIo, readTop |-> ZeroTop, writeTop |-> ZeroTop]

\* calcAll keeping in mPrevious the records of the uids that stopped reporting
CalcResult_CarriesForward(r, seed, data, now, acc, list, amounts, keys) ==
    [trap |-> r.trap, seed |-> seed,
     mPrevious |-> [u \in DOMAIN data \cup DOMAIN mPrevious |->
                       IF u \in DOMAIN data THEN data[u] ELSE mPrevious[u]],
     mLast |-> mNow,
     mNow |-> now, mTotal |-> acc.total, mReadTop |-> acc.readTop,
     mWriteTop |-> acc.writeTop, mUidNameMap |-> r.map,
     mUidNameMapping |-> r.procNames, mUnknownUidList |-> r.list,
     pending |-> list, lookup |-> r.lookup,
     amounts |-> amounts, keys |-> keys]

\* calcAll with the seeding branch not storing the snapshot
CalcResult_SeedKeepsPrevious(r, seed, data, now, acc, list, amounts, keys) ==
    [trap |-> r.trap, seed |-> seed,
     mPrevious |-> IF seed THEN mPrevious ELSE data, mLast |-> mNow,
     mNow |-> now, mTotal |-> acc.total, mReadTop |-> acc.readTop,
     mWriteTop |-> acc.writeTop, mUidNameMap |-> r.map,
     mUidNameMapping |-> r.procNames, mUnknownUidList |-> r.list,
     pending |-> list, lookup |-> r.lookup,
     amounts |-> amounts, keys |-> keys]

\* What one run of calcAll leaves: seed tells the branch taken, r is the
\* outcome of the name resolution, acc Total and the top arrays.
CalcResult(r, seed, data, now, acc, list, amounts, keys) ==
    [trap |-> r.trap, seed |-> seed, mPrevious |-> data, mLast |-> mNow,
     mNow |-> now, mTotal |-> acc.total, mReadTop |-> acc.readTop,
     mWriteTop |-> acc.writeTop, mUidNameMap |-> r.map,
     mUidNameMapping |-> r.procNames, mUnknownUidList |-> r.list,
     pending |-> list, lookup |-> r.lookup,
     amounts |-> amounts, keys |-> keys]

\* calcAll(data) at clock reading now.  scans: what a process scan may find,
\* pws: what getpwuid may know, dOrds / aOrds: the iteration orders of the
\* maps data and amounts.  The result is the set of possible outcomes.
calcAll(data, now, scans, pws, dOrds, aOrds) ==
    IF mLast = mNow
       THEN UNION {
               {CalcResult(r, TRUE, data, now, KeptTotals, list, EmptyMap, <<>>) :
                   r \in updateUnknownUidList(list, mUidNameMap,
                            ProcUpdate(mUidNameMapping, scan), scans, pws)}
               : scan \in scans,
                 list \in {mUnknownUidList \o KeysInOrder(MovedFrom(data), o) : o \in dOrds}}
       ELSE LET amounts == Increment(mPrevious, data)
            IN UNION {
                  LET acc == AccumulateAll(ResetTotals, amounts, keys, 1)
                  IN {CalcResult(r, FALSE, data, now, acc, list, amounts, keys) :
                         r \in updateUnknownUidList(list, mUidNameMap, mUidNameMapping,
                                                    scans, pws)}
                  : list \in {mUnknownUidList \o NewUnknown(amounts, mUidNameMap, o) :
                                 o \in dOrds},
                    keys \in {KeysInOrder(amounts, o) : o \in aOrds}}

(***************************************************************************)
(* print_num and IoStats::dump.  A text is a sequence of one-character     *)
(* strings; the report is a sequence of lines, each the record of the      *)
(* values its format string prints.                                        *)
(***************************************************************************)
DigitChar(d) == <<"0", "1", "2", "3", "4", "5", "6", "7", "8", "9">>[d + 1]

\* snprintf("%" PRIu64): the decimal digits of x
RECURSIVE DecDigits(_)
DecDigits(x) ==
    IF x < 10 THEN <<DigitChar(x)>> ELSE Append(DecDigits(x \div 10), DigitChar(x % 10))

\* the loop of print_num (66-74): i counts digits, j is the (0-based) write
\* position, str the buffer (1-based here)
RECURSIVE PrintNumLoop(_, _, _, _, _)
PrintNumLoop(i, j, x, len, str) ==
    IF i >= len THEN str
    ELSE LET s1 == [str EXCEPT ![j + 1] = DigitChar(x % 10)]
             j1 == j - 1
         IN IF i % 3 = 2 /\ j1 >= 0
            THEN PrintNumLoop(i + 1, j1 - 1, x \div 10, len,
                              [s1 EXCEPT ![j1 + 1] = ","])
            ELSE PrintNumLoop(i + 1, j1, x \div 10, len, s1)

\* print_num leaving the digits as snprintf wrote them
print_num_Ungrouped(x, size) == [ok |-> TRUE, str |-> DecDigits(x)]

\* print_num(x, str, size): [ok, str], str the text left in the buffer
print_num(x, size) ==
    LET digits == DecDigits(x)
        len == Len(digits)
        extr == (len - 1) \div 3
        endpos == len + extr
    IN IF len + 1 > size
       THEN [ok |-> FALSE, str |-> SubSeq(digits, 1, size - 1)]
       ELSE IF endpos > size
            THEN [ok |-> FALSE, str |-> digits]
            ELSE [ok |-> TRUE,
                  str |-> PrintNumLoop(0, endpos - 1, x, len,
                             [k \in 1..endpos |-> IF k <= len THEN digits[k] ELSE "?"])]

\* The two size tests of print_num (56-63) for a number of len digits.
PrintNumAccepts(len, size) == ~(len + 1 > size) /\ ~(len + (len - 1) \div 3 > size)

\* The size of r_total and w_total in dump (316-317).
TotalBufferSize == 32

\* The call print_num(x, r_total, 32) of dump (318) on its own, for a value x.
PrintTotal(x) ==
    /\ alive
    /\ LET r == print_num(x, TotalBufferSize)
       IN tick' = [kind |-> "print", x |-> x, ok |-> r.ok, str |-> r.str]
    /\ appended' = <<>>
    /\ UNCHANGED <<mPrevious, mLast, mNow, mTotal, mReadTop, mWriteTop, mUidNameMap,
                   mUnknownUidList, mUidNameMapping, mMinSizeOfTotalRead,
                   mMinSizeOfTotalWrite, sDisabled, sOptDebug, alive, offered>>

\* C++ integer division and remainder (truncation towards zero)
CDiv(a, b) == IF a >= 0 THEN a \div b ELSE -((-a) \div b)

CRem(a, b) == a - b * CDiv(a, b)

\* total = total + top[i] over the array (341-343, 370-372)
RECURSIVE TopSum(_, _)
TopSum(top, i) == IF i = 0 THEN ZeroIo ELSE IoAdd(TopSum(top, i - 1), top[i])

PackageOf(map, uid) == IF uid \in DOMAIN map THEN map[uid] ELSE "-"

\* the loop of lines 345-360 from slot i on; the percentage is carried as
\* the quotient it prints (100 * num / den)
RECURSIVE ReadRankLines(_, _, _, _)
ReadRankLines(top, total, map, i) ==
    IF i > IO_TOP_MAX \/ io_sum_read(total) = 0 \/ io_sum_read(top[i]) = 0 THEN <<>>
    ELSE <<[line |-> "R", rank |-> i,
            percent |-> [num |-> io_sum_read(top[i]), den |-> io_sum_read(total)],
            fg |-> top[i].fg_read, bg |-> top[i].bg_read,
            fg_fsync |-> top[i].fg_fsync, bg_fsync |-> top[i].bg_fsync,
            uid |-> top[i].uid, package |-> PackageOf(map, top[i].uid)]>>
         \o ReadRankLines(top, total, map, i + 1)

\* the loop of lines 374-389 from slot i on
RECURSIVE WriteRankLines(_, _, _, _)
WriteRankLines(top, total, map, i) ==
    IF i > IO_TOP_MAX \/ io_sum_write(total) = 0 \/ io_sum_write(top[i]) = 0 THEN <<>>
    ELSE <<[line |-> "W", rank |-> i,
            percent |-> [num |-> io_sum_write(top[i]), den |-> io_sum_write(total)],
            fg |-> top[i].fg_write, bg |-> top[i].bg_write,
            fg_fsync |-> top[i].fg_fsync, bg_fsync |-> top[i].bg_fsync,
            uid |-> top[i].uid, package |-> PackageOf(map, top[i].uid)]>>
         \o WriteRankLines(top, total, map, i + 1)

\* the total line (315-328)
TotalLine(total, last, now) ==
    LET ms == now - last
    IN [line |-> "IO_TOTAL", sec |-> CDiv(ms, 1000), msec |-> CRem(ms, 1000),
        rd |-> print_num(io_sum_read(total), 32).str,
        wr |-> print_num(io_sum_write(total), 32).str,
        fsync |-> U64(total.fg_fsync + total.bg_fsync)]

\* the header line: no header when both totals are below their thresholds
HeaderLines_Always(total, minRead, minWrite) == <<[line |-> "IO_TOP"]>>

\* the header line (330-333)
HeaderLines(total, minRead, minWrite) ==
    IF io_sum_read(total) >= minRead \/ io_sum_write(total) >= minWrite
    THEN <<[line |-> "IO_TOP"]>> ELSE <<>>

\* the read section with the threshold printed in bytes, not in MB
ReadSection_Bytes(total, readTop, map, minRead) ==
    IF io_sum_read(total) < minRead
    THEN <<[line |-> "skip RD", total |-> io_sum_read(total), mb |-> minRead]>>
    ELSE ReadRankLines(readTop, TopSum(readTop, IO_TOP_MAX), map, 1)

\* the read section (334-361)
ReadSection(total, readTop, map, minRead) ==
    IF io_sum_read(total) < minRead
    THEN <<[line |-> "skip RD", total |-> io_sum_read(total),
            mb |-> minRead \div 1000000]>>
    ELSE ReadRankLines(readTop, TopSum(readTop, IO_TOP_MAX), map, 1)

\* the write section (363-390)
WriteSection(total, writeTop, map, minWrite) ==
    IF io_sum_write(total) < minWrite
    THEN <<[line |-> "skip WR", total |-> io_sum_write(total),
            mb |-> minWrite \div 1000000]>>
    ELSE WriteRankLines(writeTop, TopSum(writeTop, IO_TOP_MAX), map, 1)

\* IoStats::dump on the given members
dump(total, readTop, writeTop, map, last, now, minRead, minWrite) ==
    <<TotalLine(total, last, now)>>
    \o HeaderLines(total, minRead, minWrite)
    \o ReadSection(total, readTop, map, minRead)
    \o WriteSection(total, writeTop, map, minWrite)

(***************************************************************************)
(* io_usage::refresh.                                                      *)
(***************************************************************************)
\* What ReadFileToString(UID_IO_STATS_PATH) may give: [ok, buffer].  It
\* either succeeds with one of the files, or fails (the file cannot be
\* opened) and leaves the buffer empty.
ReadResults(files, reads) ==
    {[ok |-> TRUE, buffer |-> f] : f \in IF TRUE \in reads THEN files ELSE {}}
    \cup {[ok |-> FALSE, buffer |-> <<>>] : x \in reads \ {TRUE}}

\* refresh().  files: what /proc/uid_io/stats may hold, reads: whether reading
\* it may succeed / fail, clocks: the readings of the system clock, scans: what
\* a process scan may find, pws: what getpwuid may know, dOrds / aOrds: the
\* iteration orders of the maps data and amounts.
Refresh(files, reads, clocks, scans, pws, dOrds, aOrds) ==
    /\ alive
    /\ ~sDisabled
    /\ \E src \in ReadResults(files, reads), now \in clocks :
       \E o \in calcAll(ParseLines(src.buffer, 1, EmptyMap), now, scans, pws, dOrds, aOrds) :
          IF o.trap
          THEN /\ alive' = FALSE
               /\ appended' = <<>>
               /\ tick' = [kind |-> "abort"]
               /\ UNCHANGED <<mPrevious, mLast, mNow, mTotal, mReadTop, mWriteTop,
                              mUidNameMap, mUnknownUidList, mUidNameMapping,
                              mMinSizeOfTotalRead, mMinSizeOfTotalWrite,
                              sDisabled, sOptDebug, offered>>
          ELSE /\ mPrevious' = o.mPrevious
               /\ mLast' = o.mLast
               /\ mNow' = o.mNow
               /\ mTotal' = o.mTotal
               /\ mReadTop' = o.mReadTop
               /\ mWriteTop' = o.mWriteTop
               /\ mUidNameMap' = o.mUidNameMap
               /\ mUidNameMapping' = o.mUidNameMapping
               /\ mUnknownUidList' = o.mUnknownUidList
               /\ appended' = dump(o.mTotal, o.mReadTop, o.mWriteTop, o.mUidNameMap,
                                   o.mLast, o.mNow, mMinSizeOfTotalRead,
                                   mMinSizeOfTotalWrite)
               /\ offered' = IF o.seed THEN offered
                             ELSE [i \in 1..Len(o.keys) |-> o.amounts[o.keys[i]]]
               /\ tick' = [kind |-> IF o.seed THEN "seed" ELSE "calc",
                           readOk |-> src.ok,
                           data |-> ParseLines(src.buffer, 1, EmptyMap),
                           repeat |-> ParseLines(src.buffer, 1, EmptyMap) = mPrevious,
                           amounts |-> o.amounts,
                           pending |-> o.pending, lookup |-> o.lookup]
               /\ UNCHANGED <<mMinSizeOfTotalRead, mMinSizeOfTotalWrite,
                              sDisabled, sOptDebug, alive>>

(***************************************************************************)
(* io_usage::setOptions.                                                   *)
(***************************************************************************)
DigitValue(c) ==
    CASE c = "0" -> 0 [] c = "1" -> 1 [] c = "2" -> 2 [] c = "3" -> 3 [] c = "4" -> 4
      [] c = "5" -> 5 [] c = "6" -> 6 [] c = "7" -> 7 [] c = "8" -> 8 [] c = "9" -> 9
      [] OTHER -> -1

RECURSIVE DecValue(_, _)
DecValue(text, n) ==
    IF n = 0 THEN 0 ELSE 10 * DecValue(text, n - 1) + DigitValue(text[n])

\* android::base::ParseUint(value, &val) on a text of decimal digits: [ok, val]
ParseUint(text) ==
    IF text = <<>> \/ \E k \in 1..Len(text) : DigitValue(text[k]) < 0
    THEN [ok |-> FALSE, val |-> 0]
    ELSE IF DecValue(text, Len(text)) >= UINT64_SPAN
         THEN [ok |-> FALSE, val |-> 0]
         ELSE [ok |-> TRUE, val |-> DecValue(text, Len(text))]

OptionKeys == {"iostats.min", "iostats.read.min", "iostats.write.min",
               "iostats.debug", "iostats.disabled", "iostats.verbose"}

OptionValues == {<<"3">>, <<"2", "0", "0", "0", "0", "0", "0">>, <<"o", "n">>}

\* the key test with "iostats.disabled" among the keys
KnownKey_WithDisabled(key) ==
    key \in {"iostats.min", "iostats.read.min", "iostats.write.min", "iostats.debug",
             "iostats.disabled"}

\* the key test of setOptions (432-433)
KnownKey(key) ==
    key \in {"iostats.min", "iostats.read.min", "iostats.write.min", "iostats.debug"}

setOptions(key, value) ==
    /\ alive
    /\ LET known == KnownKey(key)
           p == ParseUint(value)
       IN IF ~known \/ ~p.ok
          THEN UNCHANGED <<mMinSizeOfTotalRead, mMinSizeOfTotalWrite, sDisabled, sOptDebug>>
          ELSE /\ mMinSizeOfTotalRead' =
                     IF key \in {"iostats.min", "iostats.read.min"} THEN p.val
                     ELSE mMinSizeOfTotalRead
               /\ mMinSizeOfTotalWrite' =
                     IF key \in {"iostats.min", "iostats.write.min"} THEN p.val
                     ELSE mMinSizeOfTotalWrite
               /\ sDisabled' =
                     IF key # "iostats.min" /\ key = "iostats.disabled" THEN p.val # 0
                     ELSE sDisabled
               /\ sOptDebug' = IF key = "iostats.debug" THEN p.val # 0 ELSE sOptDebug
    /\ appended' = <<>>
    /\ tick' = [kind |-> "option",
                disabling |-> key = "iostats.disabled" /\ ParseUint(value).ok
                                 /\ ParseUint(value).val # 0]
    /\ UNCHANGED <<mPrevious, mLast, mNow, mTotal, mReadTop, mWriteTop, mUidNameMap,
                   mUnknownUidList, mUidNameMapping, alive, offered>>

(***************************************************************************)
(* Specifications.                                                         *)
(***************************************************************************)
Clock == 1..MaxTime

\* All iteration orders of a map keyed by uid.
UidOrders == {o \in [1..Cardinality(UIDs) -> UIDs] : \A i, j \in DOMAIN o : i # j => o[i] # o[j]}

\* A file with an empty line, a line that is too short and a line with a
\* non-numeric field beside one valid line.
JunkFile ==
    <<<<>>, <<10001, 0, 0, 5>>, KernelLine(1000, SampleA),
      <<10002, 0, 0, -1, 0, 0, 0, 0, 0, 0, 0>>>>

\* The ticks.  The files: none, one or three identities reporting, with
\* counters that stay, grow and fall between two of them.
TickFiles ==
    {FileOf(EmptyMap),
     FileOf([u \in {1000} |-> SampleB]),
     FileOf([u \in UIDs |-> IF u = 10002 THEN SampleB ELSE SampleA]),
     FileOf([u \in UIDs |-> IF u = 1000 THEN SampleA ELSE SampleC]),
     JunkFile}

\* Reads that succeed or fail, any clock reading, any iteration order of the
\* deltas; no process and no passwd entry is found.
Next == Refresh(TickFiles, BOOLEAN, Clock, {EmptyMap}, {EmptyMap}, {UidSeq}, UidOrders)

Spec == Init /\ [][Next]_vars

\* The name resolution.  The files: none or all three identities reporting.
NameFiles ==
    {FileOf(EmptyMap),
     FileOf([u \in UIDs |-> SampleA]),
     FileOf([u \in UIDs |-> SampleB])}

\* What a process scan may find: nothing, both applications, or another
\* process of the first one.
NameScans ==
    {EmptyMap,
     [u \in {10001, 10002} |-> IF u = 10001 THEN "com.a" ELSE "com.b"],
     [u \in {10001} |-> "com.c"]}

\* What the passwd database may know.
NamePws == {EmptyMap, [u \in {1000} |-> "system"]}

NextNames == Refresh(NameFiles, {TRUE}, Clock, NameScans, NamePws, UidOrders, {UidSeq})

SpecNames == Init /\ [][NextNames]_vars

\* The report and the options.
DumpFiles ==
    {FileOf([u \in {1000} |-> SampleA]),
     FileOf([u \in {1000, 10001} |-> IF u = 1000 THEN SampleB ELSE SampleA])}

RefreshDump == Refresh(DumpFiles, {TRUE}, Clock, {EmptyMap}, {EmptyMap}, {UidSeq}, {UidSeq})

NextDump ==
    \/ RefreshDump
    \/ \E key \in OptionKeys, value \in OptionValues : setOptions(key, value)

SpecDump == Init /\ [][NextDump]_vars

\* The values formatted: every value up to MaxPrinted, and values around
\* each place where the number of digits or of groups changes.
PrintInputs ==
    0..MaxPrinted
    \cup {999, 1000, 1001, 9999, 10000, 99999, 100000, 999999, 1000000, 1000001, 9999999, 10000000,
          99999999, 100000000, 123456789, UINT64_SPAN - 1}

NextPrint == \E x \in PrintInputs : PrintTotal(x)

\* print_num alone: one value formatted after the other.
SpecPrint == Init /\ [][NextPrint]_vars

NextRank == \E d \in RankOffers : Offer(d)

\* The rankers alone: any sequence of offers to the zeroed top arrays.
SpecRank == Init /\ [][NextRank]_vars

(***************************************************************************)
(* Helpers of the properties.                                              *)
(***************************************************************************)
ReadMetrics(s) == [i \in 1..Len(s) |-> io_sum_read(s[i])]

WriteMetrics(s) == [i \in 1..Len(s) |-> io_sum_write(s[i])]

\* Insertion of metric x into the descending sequence ms, after its equals.
RECURSIVE InsertDesc(_, _, _)
InsertDesc(ms, ks, pos) ==
    \* ms: metrics, ks: the items carried with them, pos.m / pos.k: the new pair
    IF ms = <<>> THEN [m |-> <<pos.m>>, k |-> <<pos.k>>]
    ELSE IF pos.m > Head(ms)
         THEN [m |-> <<pos.m>> \o ms, k |-> <<pos.k>> \o ks]
         ELSE LET r == InsertDesc(Tail(ms), Tail(ks), pos)
              IN [m |-> <<Head(ms)>> \o r.m, k |-> <<Head(ks)>> \o r.k]

\* The records of s with a non-zero metric, sorted by metric in descending
\* order, records of equal metric in the order of s (a stable sort).
RECURSIVE StableSorted(_, _, _)
StableSorted(s, ms, n) ==
    IF n = 0 THEN [m |-> <<>>, k |-> <<>>]
    ELSE LET r == StableSorted(s, ms, n - 1)
         IN IF ms[n] = 0 THEN r
            ELSE InsertDesc(r.m, r.k, [m |-> ms[n], k |-> s[n]])

\* The first IO_TOP_MAX items of s, padded with the zero record.
PadTop(s) == [i \in 1..IO_TOP_MAX |-> IF i <= Len(s) THEN s[i] ELSE ZeroIo]

StableTopRead(s) == PadTop(StableSorted(s, ReadMetrics(s), Len(s)).k)

StableTopWrite(s) == PadTop(StableSorted(s, WriteMetrics(s), Len(s)).k)

\* Each slot of top with a non-zero metric (tm: the metrics of top) is a
\* record of s, no record of s used twice; the other slots are zero records.
HeldFrom(top, tm, s) ==
    \E f \in [1..IO_TOP_MAX -> 0..Len(s)] :
        /\ \A i \in 1..IO_TOP_MAX :
              IF tm[i] = 0 THEN f[i] = 0 /\ top[i] = ZeroIo
              ELSE f[i] # 0 /\ s[f[i]] = top[i]
        /\ \A i, j \in 1..IO_TOP_MAX : (i # j /\ f[i] # 0) => f[i] # f[j]

\* C1 (as claimed): after any sequence of offers from the all-zero arrays,
\* each array holds the IO_TOP_MAX (or fewer) largest-metric records offered,
\* in descending order of the metric, records of equal metric in the order
\* they were offered (the earlier-offered one wins a tie).
C1_TopK_TiesFavourEarlier ==
    /\ mReadTop = StableTopRead(offered)
    /\ mWriteTop = StableTopWrite(offered)

\* C1 (amended): each array holds records that were offered, in descending
\* order of the metric, and their metrics are the IO_TOP_MAX largest metrics
\* offered (zero where fewer non-zero records were offered); a record just
\* offered never displaces a slot of equal metric.  Which of several records
\* of equal metric is kept is not fixed by the order of the offers.
C1_TopK_ByMetric ==
    /\ ReadMetrics(mReadTop) = ReadMetrics(StableTopRead(offered))
    /\ WriteMetrics(mWriteTop) = WriteMetrics(StableTopWrite(offered))
    /\ HeldFrom(mReadTop, ReadMetrics(mReadTop), offered)
    /\ HeldFrom(mWriteTop, WriteMetrics(mWriteTop), offered)

\* C1 witness: IO_TOP_MAX + 1 records of distinct owners were offered, the
\* last one ranks between the first and the one before it, took the last
\* slot of the read array and pushed that one out (A, B, C give [A, C]).
C1_Witness_Eviction ==
    /\ Len(offered) = IO_TOP_MAX + 1
    /\ \A i, j \in 1..Len(offered) : i # j => offered[i].uid # offered[j].uid
    /\ io_sum_read(offered[1]) > io_sum_read(offered[Len(offered)])
    /\ io_sum_read(offered[Len(offered)]) > io_sum_read(offered[IO_TOP_MAX])
    /\ io_sum_read(offered[IO_TOP_MAX]) > 0
    /\ mReadTop[IO_TOP_MAX] = offered[Len(offered)]
    /\ mReadTop[1] = offered[1]

CounterFields == {"fg_read", "bg_read", "fg_write", "bg_write", "fg_fsync", "bg_fsync"}

\* The sum, in uint64_t arithmetic, of field f over the records of map m.
RECURSIVE SumField(_, _, _)
SumField(m, S, f) ==
    IF S = {} THEN 0
    ELSE LET u == CHOOSE x \in S : TRUE
         IN U64(m[u][f] + SumField(m, S \ {u}, f))

IsZero(d) == \A f \in CounterFields : d[f] = 0

Range(s) == {s[k] : k \in 1..Len(s)}

Ticked == tick.kind \in {"seed", "calc"}

\* C2: after every non-seeding tick, each field of Total is the sum (in
\* uint64_t arithmetic) of that field over the deltas the tick computed, one
\* per identity of the current snapshot; nothing of an earlier tick is in it.
C2_TotalIsSumOfDeltas ==
    tick.kind = "calc" =>
        /\ DOMAIN tick.amounts = DOMAIN mPrevious
        /\ \A f \in CounterFields :
              mTotal[f] = SumField(tick.amounts, DOMAIN tick.amounts, f)

\* C2 witness: a non-seeding tick with several identities whose deltas differ
\* and add up to a non-zero Total.
C2_Witness_SeveralDeltas ==
    /\ tick.kind = "calc"
    /\ \E u, v \in DOMAIN tick.amounts :
          /\ u # v
          /\ io_sum_read(tick.amounts[u]) > io_sum_read(tick.amounts[v])
          /\ io_sum_read(tick.amounts[v]) > 0
    /\ \A f \in CounterFields : mTotal[f] > 0

\* C3: a non-seeding tick that ingests the snapshot the tick before it
\* ingested leaves Total all-zero and only zero entries in both top arrays.
C3_RepeatedSnapshotIsZero ==
    (tick.kind = "calc" /\ tick.repeat) =>
        /\ IsZero(mTotal)
        /\ mReadTop = ZeroTop
        /\ mWriteTop = ZeroTop

\* C3 witness: a non-seeding tick ingested, again, a snapshot in which
\* identities report non-zero counters.
C3_Witness_Repeated ==
    /\ tick.kind = "calc"
    /\ tick.repeat
    /\ Cardinality(DOMAIN tick.data) > 1
    /\ \A u \in DOMAIN tick.data : ~IsZero(tick.data[u]) /\ IsZero(tick.amounts[u])

\* C4: the name cache used by the report is append-only: no step removes a
\* uid from mUidNameMap or changes the name it maps to.
C4_CacheAppendOnly ==
    [][\A u \in DOMAIN mUidNameMap :
          u \in DOMAIN mUidNameMap' /\ mUidNameMap'[u] = mUidNameMap[u]]_vars

\* C4 witness: a cached identity reports traffic in a tick in which the
\* process scan knows another name for it than the cached one.
C4_Witness_OtherNameSeen ==
    /\ tick.kind = "calc"
    /\ \E u \in DOMAIN mUidNameMap \cap DOMAIN mUidNameMapping \cap DOMAIN tick.amounts :
          /\ mUidNameMapping[u] # mUidNameMap[u]
          /\ ~IsZero(tick.amounts[u])
          /\ \A k \in 1..Len(tick.pending) : tick.pending[k] # u

\* C5 (as claimed): a tick whose read of the counter source fails leaves
\* previous_snapshot, both timestamps, Total and both top arrays unchanged.
C5_FailedReadKeepsState ==
    [][(Ticked' /\ ~tick'.readOk) => UNCHANGED intervalState]_vars

\* C6 (as claimed): a report rendered while both totals are below their
\* thresholds consists of the total line only.
C6_BelowBothOnlyTotalLine ==
    (/\ appended # <<>>
     /\ io_sum_read(mTotal) < mMinSizeOfTotalRead
     /\ io_sum_write(mTotal) < mMinSizeOfTotalWrite)
    => Len(appended) = 1 /\ appended[1].line = "IO_TOTAL"

\* C6 (amended): a report rendered while both totals are below their
\* thresholds consists of the total line, the read skip notice and the write
\* skip notice: it has no header line and no rank entry.
C6_BelowBothTotalAndNotices ==
    (/\ appended # <<>>
     /\ io_sum_read(mTotal) < mMinSizeOfTotalRead
     /\ io_sum_write(mTotal) < mMinSizeOfTotalWrite)
    => [i \in 1..Len(appended) |-> appended[i].line] = <<"IO_TOTAL", "skip RD", "skip WR">>

\* C6 witness: a report was rendered with a non-zero Total below both thresholds.
C6_Witness_BelowBoth ==
    /\ appended # <<>>
    /\ io_sum_read(mTotal) > 0
    /\ io_sum_read(mTotal) < mMinSizeOfTotalRead
    /\ io_sum_write(mTotal) > 0
    /\ io_sum_write(mTotal) < mMinSizeOfTotalWrite

LinesOf(kind) == {i \in 1..Len(appended) : appended[i].line = kind}

\* C7: a report rendered while the read (write) total is below its
\* threshold T has no read (write) rank line and exactly one read (write)
\* skip notice, carrying that total and T / 1000000; a report rendered while
\* the total is not below T has no such notice.
C7_ThresholdGating ==
    appended # <<>> =>
        /\ IF io_sum_read(mTotal) < mMinSizeOfTotalRead
           THEN /\ LinesOf("R") = {}
                /\ Cardinality(LinesOf("skip RD")) = 1
                /\ \A i \in LinesOf("skip RD") :
                      /\ appended[i].total = io_sum_read(mTotal)
                      /\ appended[i].mb = mMinSizeOfTotalRead \div 1000000
           ELSE LinesOf("skip RD") = {}
        /\ IF io_sum_write(mTotal) < mMinSizeOfTotalWrite
           THEN /\ LinesOf("W") = {}
                /\ Cardinality(LinesOf("skip WR")) = 1
                /\ \A i \in LinesOf("skip WR") :
                      /\ appended[i].total = io_sum_write(mTotal)
                      /\ appended[i].mb = mMinSizeOfTotalWrite \div 1000000
           ELSE LinesOf("skip WR") = {}

\* C7 witness: the read total is below a threshold of whole megabytes, the
\* write total is not below its threshold and write ranks are printed.
C7_Witness_ReadSkippedWriteRanked ==
    /\ appended # <<>>
    /\ io_sum_read(mTotal) > 0
    /\ io_sum_read(mTotal) < mMinSizeOfTotalRead
    /\ mMinSizeOfTotalRead >= 1000000
    /\ io_sum_write(mTotal) >= mMinSizeOfTotalWrite
    /\ mMinSizeOfTotalWrite > 0
    /\ LinesOf("W") # {}

\* C8 (as claimed): after the resolve step of a tick every pending uid for
\* which its lookup yields a name is in the name cache with that name.
C8_ResolvablePendingNamed ==
    Ticked => \A u \in DOMAIN tick.lookup :
                 u \in DOMAIN mUidNameMap /\ mUidNameMap[u] = tick.lookup[u]

\* C9 (as claimed): the seeding tick puts every uid of the ingested snapshot
\* in the pending list, so every application uid of it that the process scan
\* has a name for is in the name cache when the tick ends.
C9_SeedMarksAllPending ==
    tick.kind = "seed" =>
        /\ Range(tick.pending) = DOMAIN tick.data
        /\ \A u \in DOMAIN tick.data :
              (isAppUid(u) /\ u \in DOMAIN mUidNameMapping) => u \in DOMAIN mUidNameMap

\* C10: the seeding tick stores the ingested snapshot as mPrevious and
\* leaves Total and both top arrays as they were: it computes no delta and
\* offers no record.
C10_SeedStoresAndKeepsTotals ==
    [][tick'.kind = "seed" =>
          /\ mPrevious' = tick'.data
          /\ tick'.amounts = EmptyMap
          /\ UNCHANGED <<mTotal, mReadTop, mWriteTop, offered>>]_vars

\* C10 witness: a seeding tick ingested a snapshot with identities in it.
C10_Witness_Seeded ==
    /\ tick.kind = "seed"
    /\ tick.data # EmptyMap
    /\ mPrevious = tick.data

\* C11 (as claimed): exactly the first tick is a seeding tick: whatever the
\* clock returns, a tick that follows a tick does not take the seeding branch
\* and leaves mLast different from mNow.
C11_OnlyFirstTickSeeds ==
    [][Ticked => (tick'.kind # "seed" /\ mLast' # mNow')]_vars

\* The field-wise difference a - b of two records of owner u, in uint64_t.
FieldwiseDifference(u, a, b) ==
    [f \in CounterFields \cup {"uid"} |->
        IF f = "uid" THEN u ELSE (a[f] - b[f]) % UINT64_SPAN]

\* C12: on every non-seeding tick the deltas have exactly the uids of the
\* current snapshot; the delta of a uid that is a key of mPrevious is the
\* field-wise difference of its record and mPrevious[uid], the delta of any
\* other uid is its record; after the tick mPrevious is the current snapshot.
C12_DeltaPerIdentity ==
    [][tick'.kind = "calc" =>
          /\ DOMAIN tick'.amounts = DOMAIN tick'.data
          /\ \A u \in DOMAIN tick'.data :
                tick'.amounts[u] =
                    IF u \in DOMAIN mPrevious
                    THEN FieldwiseDifference(u, tick'.data[u], mPrevious[u])
                    ELSE tick'.data[u]
          /\ mPrevious' = tick'.data]_vars

\* C12 witness: a non-seeding tick with an identity whose delta differs from
\* its record (it was in mPrevious) and one whose delta is its record.
C12_Witness_OldAndNew ==
    /\ tick.kind = "calc"
    /\ mPrevious = tick.data
    /\ \E u, v \in DOMAIN tick.data :
          /\ tick.amounts[u] # tick.data[u]
          /\ ~IsZero(tick.amounts[u])
          /\ tick.amounts[v] = tick.data[v]
          /\ ~IsZero(tick.data[v])

\* C13: between ticks each top array is in non-increasing order of its
\* metric (the read sum for mReadTop, the write sum for mWriteTop), so its
\* entries of non-zero metric are a prefix of it.
C13_TopsSortedAndContiguous ==
    /\ \A i \in 1..(IO_TOP_MAX - 1) :
          /\ io_sum_read(mReadTop[i]) >= io_sum_read(mReadTop[i + 1])
          /\ io_sum_write(mWriteTop[i]) >= io_sum_write(mWriteTop[i + 1])
    /\ \A i, j \in 1..IO_TOP_MAX :
          i < j =>
             /\ io_sum_read(mReadTop[j]) # 0 => io_sum_read(mReadTop[i]) # 0
             /\ io_sum_write(mWriteTop[j]) # 0 => io_sum_write(mWriteTop[i]) # 0

\* C13 witness: after a tick in which more identities have read and written
\* than there are slots, both arrays are full and hold different metrics.
C13_Witness_FullArrays ==
    /\ tick.kind = "calc"
    /\ Cardinality({u \in DOMAIN tick.amounts :
                       io_sum_read(tick.amounts[u]) # 0 /\ io_sum_write(tick.amounts[u]) # 0})
          > IO_TOP_MAX
    /\ io_sum_read(mReadTop[1]) > io_sum_read(mReadTop[IO_TOP_MAX])
    /\ io_sum_read(mReadTop[IO_TOP_MAX]) > 0
    /\ io_sum_write(mWriteTop[1]) > io_sum_write(mWriteTop[IO_TOP_MAX])
    /\ io_sum_write(mWriteTop[IO_TOP_MAX]) > 0

\* C14: the pending list is empty at the end of every tick, and a
\* non-seeding tick puts in it exactly the uids whose delta has a non-zero
\* read sum or write sum and that have no cached name when the tick starts.
C14_PendingClearedAndTrafficDriven ==
    [][Ticked' =>
          /\ mUnknownUidList' = <<>>
          /\ tick'.kind = "calc" =>
                Range(tick'.pending) =
                   {u \in DOMAIN tick'.amounts :
                       /\ io_sum_read(tick'.amounts[u]) # 0
                             \/ io_sum_write(tick'.amounts[u]) # 0
                       /\ u \notin DOMAIN mUidNameMap}]_vars

\* C14 witness: a tick ended with a uid that was pending and still has no
\* name, while a uid named by an earlier tick had traffic and was not pending.
C14_Witness_UnresolvedDropped ==
    /\ tick.kind = "calc"
    /\ mUnknownUidList = <<>>
    /\ \E u \in Range(tick.pending) : u \notin DOMAIN mUidNameMap
    /\ \E v \in DOMAIN tick.amounts :
          /\ ~IsZero(tick.amounts[v])
          /\ v \in DOMAIN mUidNameMap
          /\ v \notin Range(tick.pending)

\* C15: when a counter of an identity is smaller in the current snapshot
\* than in mPrevious, the delta field is the difference modulo 2^64 (the
\* negative difference plus 2^64, not zero), and that delta is added to
\* Total and offered to the top arrays like any other.
C15_FallenCounterWraps ==
    [][tick'.kind = "calc" =>
          \A u \in DOMAIN tick'.data \cap DOMAIN mPrevious :
             /\ \A f \in CounterFields :
                   tick'.data[u][f] < mPrevious[u][f] =>
                      /\ tick'.amounts[u][f] =
                            tick'.data[u][f] - mPrevious[u][f] + UINT64_SPAN
                      /\ mTotal'[f] = SumField(tick'.amounts, DOMAIN tick'.amounts, f)
             /\ tick'.amounts[u] \in Range(offered')]_vars

\* C15 witness: a delta with a wrapped field (larger than the counter read)
\* leads the read array.
C15_Witness_WrappedOnTop ==
    /\ tick.kind = "calc"
    /\ \E u \in DOMAIN tick.amounts :
          /\ tick.amounts[u].bg_read > tick.data[u].bg_read
          /\ tick.amounts[u].bg_read > UINT64_SPAN \div 2
          /\ mReadTop[1] = tick.amounts[u]
          /\ tick.amounts[u] \in Range(offered)

\* The digits d with a comma between every group of three counted from the right.
RECURSIVE GroupedFromRight(_)
GroupedFromRight(d) ==
    IF Len(d) <= 3 THEN d
    ELSE GroupedFromRight(SubSeq(d, 1, Len(d) - 3)) \o <<",">>
            \o SubSeq(d, Len(d) - 2, Len(d))

\* C16: print_num(x, buf, 32) returns true and leaves the decimal digits of x
\* with a comma between every group of three digits counted from the right
\* and nothing else; its size tests pass for every length a uint64_t can have.
C16_PrintNumGroupsByThree ==
    /\ tick.kind = "print" =>
          /\ tick.ok
          /\ tick.str = GroupedFromRight(DecDigits(tick.x))
          /\ tick.str[1] # ","
    /\ \A len \in 1..MaxDigits : PrintNumAccepts(len, TotalBufferSize)

\* C16 witness: a value of at least seven digits was formatted with two commas.
C16_Witness_TwoCommas ==
    /\ tick.kind = "print"
    /\ tick.x >= 1000000
    /\ tick.ok
    /\ Cardinality({k \in 1..Len(tick.str) : tick.str[k] = ","}) = 2

\* C17: a uid that is in the snapshot of a non-seeding tick and was not in
\* the snapshot of the tick before it (whatever it reported earlier) has its
\* full record as delta, and that delta is in Total and is offered to the
\* top arrays.
C17_ReturningIdentityCountsInFull ==
    [][(Ticked /\ tick'.kind = "calc") =>
          \A u \in DOMAIN tick'.data \ DOMAIN tick.data :
             /\ tick'.amounts[u] = tick'.data[u]
             /\ tick'.amounts[u] \in Range(offered')
             /\ \A f \in CounterFields :
                   mTotal'[f] = SumField(tick'.amounts, DOMAIN tick'.amounts, f)]_vars

\* C17 witness: a uid that an earlier tick named (so it reported then, and is
\* not pending now) has its full, non-zero record as delta, which it has
\* only when the snapshot before this one had no record of it; the record
\* leads the read array.
C17_Witness_BackInFull ==
    /\ tick.kind = "calc"
    /\ \E u \in DOMAIN tick.data \cap DOMAIN mUidNameMap :
          /\ u \notin Range(tick.pending)
          /\ ~IsZero(tick.data[u])
          /\ tick.amounts[u] = tick.data[u]
          /\ mReadTop[1] = tick.data[u]
          /\ mTotal.fg_read >= tick.data[u].fg_read

\* C18: no sequence of setOptions calls makes the disabled flag true: in
\* every reachable state sDisabled is false, so refresh never returns early
\* because of it.
C18_NeverDisabled == sDisabled = FALSE

\* C18 witness: setOptions was called with the key "iostats.disabled" and a
\* value that parses to a non-zero number, and the flag is still false.
C18_Witness_DisableIgnored ==
    /\ tick.kind = "option"
    /\ tick.disabling
    /\ ~sDisabled

\* The slots of a top array whose metric, taken from the sequence tm of the
\* slots' metrics, is not zero.
Populated(tm) == {i \in 1..IO_TOP_MAX : tm[i] # 0}

\* C19: after every non-seeding tick every entry of non-zero metric of a top
\* array is the delta computed in that tick for the entry's uid, and no uid
\* is in two such entries of the same array.
C19_TopEntriesAreDistinctDeltas ==
    tick.kind = "calc" =>
        /\ \A i \in Populated(ReadMetrics(mReadTop)) :
              /\ mReadTop[i].uid \in DOMAIN tick.amounts
              /\ mReadTop[i] = tick.amounts[mReadTop[i].uid]
        /\ \A i \in Populated(WriteMetrics(mWriteTop)) :
              /\ mWriteTop[i].uid \in DOMAIN tick.amounts
              /\ mWriteTop[i] = tick.amounts[mWriteTop[i].uid]
        /\ \A i, j \in Populated(ReadMetrics(mReadTop)) :
              i # j => mReadTop[i].uid # mReadTop[j].uid
        /\ \A i, j \in Populated(WriteMetrics(mWriteTop)) :
              i # j => mWriteTop[i].uid # mWriteTop[j].uid

\* C19 witness: a tick left both arrays full of entries of equal metric, of
\* different uids, while a further identity with traffic got no slot.
C19_Witness_EqualMetricsDistinctUids ==
    /\ tick.kind = "calc"
    /\ Populated(ReadMetrics(mReadTop)) = 1..IO_TOP_MAX
    /\ Populated(WriteMetrics(mWriteTop)) = 1..IO_TOP_MAX
    /\ io_sum_read(mReadTop[1]) = io_sum_read(mReadTop[IO_TOP_MAX])
    /\ mReadTop[1].uid # mReadTop[IO_TOP_MAX].uid
    /\ \E u \in DOMAIN tick.amounts :
          /\ ~IsZero(tick.amounts[u])
          /\ \A i \in 1..IO_TOP_MAX : mReadTop[i].uid # u

====
